---------------------------- MODULE Spec2Model ----------------------------
(***************************************************************************)
(* State-machine model of src/mixin_overrides.py: the mapped classes       *)
(* (FileSystem, EntryCommon, Resource, ResourcesBearer, File, Directory,   *)
(* DirectoryEntry, Executable), the property setters they override, and    *)
(* the module-level scenario of lines 200-231.                             *)
(*                                                                         *)
(* Python objects are identified by strings.  An entry is identified by    *)
(* the name of the variable it is bound to; a FileSystem by its device.    *)
(* Python's None is the string "None" so that every reference has one      *)
(* type.  The mapped attributes behave as the ORM documents them: a        *)
(* relationship attribute is a plain in-memory reference or list, a        *)
(* synonym delegates to the user's property, the association proxy maps a  *)
(* collection of DirectoryEntry records to their .entry.                   *)
(***************************************************************************)
EXTENDS Integers, Sequences, FiniteSets, TLC

VARIABLES
    filesystem,         \* the module global `filesystem` (line 208)
    objects,            \* entry id -> its class and the columns set once by __init__
    _filesystem,        \* entry id -> EntryCommon._filesystem
    _resources,         \* entry id -> list of Resource (ResourcesBearer._resources)
    directory_entries,  \* entry id -> list of DirectoryEntry (backref of line 175)
    session_new,        \* objects pending in the session
    db,                 \* the committed rows, per table
    txlog,              \* the explicit transaction-boundary calls made so far
    printed,            \* what the two queries of lines 228 and 231 returned
    pc,                 \* index of the next statement of the scenario
    raised,             \* the exception that terminated the scenario, or None
    nclient,            \* number of calls made by a client after the scenario
    last                \* the most recent call: operation, receiver, arguments, outcome

vars == <<filesystem, objects, _filesystem, _resources, directory_entries,
          session_new, db, txlog, printed, pc, raised, nclient, last>>

-----------------------------------------------------------------------------
(* Bounds of the model.                                                    *)

\* Number of calls a client of the module makes after the scenario has run.
MaxOps == 4

-----------------------------------------------------------------------------
(* Python values.                                                          *)

None == "None"

\* A name that is not bound yet: reading it raises NameError.
Unbound == "<unbound>"

PyInt(n) == [t |-> "int", v |-> n]
PyStr(s) == [t |-> "str", v |-> s]
\* A dict is its items in insertion order.
PyDict(items) == [t |-> "dict", v |-> items]

Digit(d) == <<"0", "1", "2", "3", "4", "5", "6", "7", "8", "9">>[d + 1]

RECURSIVE IntToStr(_)
IntToStr(n) == IF n < 10 THEN Digit(n) ELSE IntToStr(n \div 10) \o Digit(n % 10)

\* json.dumps for ints, plain strings and dicts of them (default separators).
RECURSIVE json_dumps(_)
RECURSIVE json_items(_)
json_items(items) ==
    IF items = <<>> THEN ""
    ELSE LET kv == Head(items)
             one == "\"" \o kv[1] \o "\": " \o json_dumps(kv[2])
         IN  IF Len(items) = 1 THEN one
             ELSE one \o ", " \o json_items(Tail(items))

json_dumps(x) ==
    CASE x.t = "int"  -> IntToStr(x.v)
      [] x.t = "str"  -> "\"" \o x.v \o "\""
      [] x.t = "dict" -> "{" \o json_items(x.v) \o "}"

\* pickle.dumps, protocol 4, as its opcode stream: [n |-> bytes, s |-> opcodes].
\* Strings are memoized, ints are not; a payload of 4 bytes or more is framed.
PickleOp(n, s) == [n |-> n, s |-> s]

PickleCat(a, b) == [n |-> a.n + b.n, s |-> a.s \o b.s]

RECURSIVE pickle_save(_)
RECURSIVE pickle_save_items(_)
pickle_save_items(items) ==
    IF items = <<>> THEN PickleOp(0, "")
    ELSE LET kv == Head(items)
         IN  PickleCat(PickleCat(pickle_save(PyStr(kv[1])), pickle_save(kv[2])),
                       pickle_save_items(Tail(items)))

pickle_save(x) ==
    CASE x.t = "int"  -> PickleOp(2, "BININT1 " \o IntToStr(x.v) \o ";")
      [] x.t = "str"  -> PickleOp(2 + Len(x.v) + 1,
                                  "SHORT_BINUNICODE '" \o x.v \o "';MEMOIZE;")
      [] x.t = "dict" ->
            LET head == PickleOp(2, "EMPTY_DICT;MEMOIZE;")
            IN  IF Len(x.v) = 0 THEN head
                ELSE IF Len(x.v) = 1
                THEN PickleCat(PickleCat(head, pickle_save_items(x.v)),
                               PickleOp(1, "SETITEM;"))
                ELSE PickleCat(PickleCat(PickleCat(head, PickleOp(1, "MARK;")),
                                         pickle_save_items(x.v)),
                               PickleOp(1, "SETITEMS;"))

pickle_dumps(x) ==
    LET body == PickleCat(pickle_save(x), PickleOp(1, "STOP"))
    IN  "PROTO 4;"
        \o (IF body.n >= 4 THEN "FRAME " \o IntToStr(body.n) \o ";" ELSE "")
        \o body.s

-----------------------------------------------------------------------------
(* The classes.                                                            *)

\* Faulty variant: Directory declared as Directory(EntryCommon, ResourcesBearer),
\* which puts the mixin behind the mapped base class.
__mro___bases_swapped(cls) ==
    CASE cls = "File" ->
            <<"File", "EntryCommon", "Base", "EntryInterface", "object">>
      [] cls = "Directory" ->
            <<"Directory", "EntryCommon", "Base", "ResourcesBearer",
              "EntryInterface", "object">>
      [] cls = "Executable" ->
            <<"Executable", "ResourcesBearer", "File", "EntryCommon", "Base",
              "EntryInterface", "object">>

\* Directory.__mro__ and Executable.__mro__ as lines 233-234 print them, and File's.
__mro__(cls) ==
    CASE cls = "File" ->
            <<"File", "EntryCommon", "Base", "EntryInterface", "object">>
      [] cls = "Directory" ->
            <<"Directory", "ResourcesBearer", "EntryCommon", "Base",
              "EntryInterface", "object">>
      [] cls = "Executable" ->
            <<"Executable", "ResourcesBearer", "File", "EntryCommon", "Base",
              "EntryInterface", "object">>

Classes == {"File", "Directory", "Executable"}

\* The classes whose body defines a `filesystem` property with a setter.
DefinesFilesystem == {"EntryInterface", "EntryCommon", "ResourcesBearer", "Directory"}

\* Position of class c in a method resolution order (0 when absent).
MroIndex(mro, c) ==
    IF \E i \in DOMAIN mro : mro[i] = c
    THEN CHOOSE i \in DOMAIN mro : mro[i] = c
    ELSE 0

\* The class that provides `filesystem` for an instance of cls, looking only
\* at the classes that follow `after` in the MRO ("" looks at all of them):
\* getattr(type(self), ...) and super(after, type(self)).
FirstOwner(mro, from) ==
    IF \E i \in DOMAIN mro : i > from /\ mro[i] \in DefinesFilesystem
    THEN mro[CHOOSE i \in DOMAIN mro :
                /\ i > from /\ mro[i] \in DefinesFilesystem
                /\ \A j \in DOMAIN mro :
                      (j > from /\ mro[j] \in DefinesFilesystem) => i <= j]
    ELSE None

FilesystemOwner(cls, after) ==
    FirstOwner(__mro__(cls), IF after = "" THEN 0 ELSE MroIndex(__mro__(cls), after))

\* Faulty variant: Executable without __mapper_args__ of its own inherits File's.
polymorphic_identity_inherited(cls) ==
    CASE cls = "File"       -> "file"
      [] cls = "Directory"  -> "directory"
      [] cls = "Executable" -> "file"

\* __mapper_args__["polymorphic_identity"] of each mapped class.
polymorphic_identity(cls) ==
    CASE cls = "File"       -> "file"
      [] cls = "Directory"  -> "directory"
      [] cls = "Executable" -> "executable"

\* __tablename__ of each mapped class (None for the unmapped ones).
__tablename__(c) ==
    CASE c = "EntryCommon" -> "entry"
      [] c = "File"        -> "file"
      [] c = "Directory"   -> "directory"
      [] c = "Executable"  -> "executable"
      [] OTHER             -> None

\* Joined-table inheritance: an instance has one row in the table of every
\* mapped class of its MRO.
TablesOf(cls) ==
    {__tablename__(__mro__(cls)[i]) : i \in DOMAIN __mro__(cls)} \ {None}

-----------------------------------------------------------------------------
(* The heap the setters work on: the three mutable attributes of entries,  *)
(* and the exception in flight (None when there is none).                  *)

Heap == [cls               |-> [x \in DOMAIN _filesystem |-> objects[x].cls],
         _filesystem       |-> _filesystem,
         _resources        |-> _resources,
         directory_entries |-> directory_entries,
         exc               |-> None]

Raise(H, e) == [H EXCEPT !.exc = e]

\* A fresh instance: relationship attributes read None or an empty list.
Allocate(H, self, cls) ==
    [H EXCEPT !.cls               = (self :> cls) @@ @,
              !._filesystem       = (self :> None) @@ @,
              !._resources        = (self :> <<>>) @@ @,
              !.directory_entries = (self :> <<>>) @@ @]

\* Resource.__init__: name and value; id, fsid, owner and filesystem stay unset.
Resource___init__(name, value) ==
    [name |-> name, value |-> value, owner |-> None, filesystem |-> None]

\* Faulty variant: __init__ that never stores its argument.
DirectoryEntry___init___dropping_entry(entry) ==
    [entry |-> None, directory |-> None]

\* DirectoryEntry.__init__: the entry; the directory is set by the backref.
DirectoryEntry___init__(entry) ==
    [entry |-> entry, directory |-> None]

\* Appending a DirectoryEntry to d.directory_entries fires the backref of
\* line 175, which points its .directory at d.
directory_entries_append(d, de) ==
    [de EXCEPT !.directory = d]

\* Directory.entries, read: association_proxy("directory_entries", "entry").
entries_get(H, d) ==
    [i \in DOMAIN H.directory_entries[d] |-> H.directory_entries[d][i].entry]

\* Directory.entries, assigned: the proxy clears the collection and appends
\* DirectoryEntry(e) for each e of the value, in order.
entries_set(H, d, L) ==
    [H EXCEPT !.directory_entries[d] =
        [i \in 1..Len(L) |-> directory_entries_append(d, DirectoryEntry___init__(L[i]))]]

\* EntryCommon.filesystem, read.
EntryCommon_filesystem_fget(H, self) == H._filesystem[self]

\* EntryCommon.filesystem, assigned (line 76): the right-hand side is the
\* name `filesystem`, which is the module global, not the parameter `value`.
EntryCommon_filesystem_fset(H, self, value) ==
    IF filesystem = Unbound THEN Raise(H, "NameError")
    ELSE [H EXCEPT !._filesystem[self] = filesystem]

\* super(C, type(self)).filesystem.__set__(self, value) for the classes whose
\* next provider cannot recurse (ResourcesBearer's super is never Directory).
filesystem___set__(owner, H, self, value) ==
    CASE owner = "EntryCommon"    -> EntryCommon_filesystem_fset(H, self, value)
      [] owner = "EntryInterface" -> H
      [] OTHER                    -> Raise(H, "AttributeError")

SuperOfResourcesBearer_fset(H, cls, self, value) ==
    filesystem___set__(FilesystemOwner(cls, "ResourcesBearer"), H, self, value)

\* The loop of lines 120-121 over self._resources, after the call of line 119.
ResourcesBearer_filesystem_loop(H, self, value) ==
    IF H.exc # None THEN H
    ELSE [H EXCEPT !._resources[self] =
            [i \in DOMAIN @ |-> [@[i] EXCEPT !.filesystem = value]]]

\* Faulty variant: the setter without its loop over self._resources.
ResourcesBearer_filesystem_fset_no_loop(H, cls, self, value) ==
    SuperOfResourcesBearer_fset(H, cls, self, value)

\* ResourcesBearer.filesystem, assigned (lines 117-121).
ResourcesBearer_filesystem_fset(H, cls, self, value) ==
    ResourcesBearer_filesystem_loop(SuperOfResourcesBearer_fset(H, cls, self, value),
                                    self, value)

\* super(Directory, type(self)).filesystem.__set__(self, value), line 161.
SuperOfDirectory_fset(H, cls, self, value) ==
    IF FilesystemOwner(cls, "Directory") = "ResourcesBearer"
    THEN ResourcesBearer_filesystem_fset(H, cls, self, value)
    ELSE filesystem___set__(FilesystemOwner(cls, "Directory"), H, self, value)

\* `x.filesystem = value`: the setter of the first class of type(x).__mro__
\* that defines the property.  `stack` holds the directories whose setter is
\* running: reaching one of them again never returns, which Python ends with
\* RecursionError after repeating the assignments already made.
RECURSIVE filesystem_setattr(_, _, _, _)
RECURSIVE Directory_filesystem_loop(_, _, _, _)

\* The loop of lines 162-163 over the entries es, stopped by an exception.
Directory_filesystem_loop(H, es, value, stack) ==
    IF es = <<>> \/ H.exc # None THEN H
    ELSE Directory_filesystem_loop(filesystem_setattr(H, Head(es), value, stack),
                                   Tail(es), value, stack)

\* Directory.filesystem, assigned (lines 158-163).
\* Lines 162-163, after the call of line 161 has produced the heap H.
Directory_filesystem_entries(H, self, value, stack) ==
    Directory_filesystem_loop(H, entries_get(H, self), value, stack \cup {self})

Directory_filesystem_fset(H, self, value, stack) ==
    Directory_filesystem_entries(SuperOfDirectory_fset(H, H.cls[self], self, value),
                                 self, value, stack)

filesystem_setattr(H, x, value, stack) ==
    IF x \in stack THEN Raise(H, "RecursionError")
    ELSE IF FilesystemOwner(H.cls[x], "") = "Directory"
    THEN Directory_filesystem_fset(H, x, value, stack)
    ELSE IF FilesystemOwner(H.cls[x], "") = "ResourcesBearer"
    THEN ResourcesBearer_filesystem_fset(H, H.cls[x], x, value)
    ELSE filesystem___set__(FilesystemOwner(H.cls[x], ""), H, x, value)

\* `x.filesystem`, read: Directory's property keeps EntryCommon's getter
\* (line 159), ResourcesBearer's getter defers to super (line 115).
filesystem_getattr(H, x) == EntryCommon_filesystem_fget(H, x)

-----------------------------------------------------------------------------
(* Constructors.  The columns an __init__ chain sets once are gathered in  *)
(* one record; the heap carries what the setters touch.                    *)

\* An argument left out of a call.
Omitted == "<omitted>"

Default(arg, d) == IF arg = Omitted THEN d ELSE arg

\* EntryCommon.__init__(name, filesystem=None), lines 65-67.
EntryCommon___init__(H, self, name, fs) ==
    filesystem_setattr(H, self, Default(fs, None), {})

\* File.__init__(name, content), lines 141-143.
File___init__(H, self, name, content) ==
    EntryCommon___init__(H, self, name, Omitted)

\* ResourcesBearer.__init__(resource_enc="json", **kwargs), lines 109-111:
\* the next __init__ of the MRO is File's for an Executable and EntryCommon's
\* for a Directory.
ResourcesBearer___init__(H, self, name, content) ==
    IF MroIndex(__mro__(H.cls[self]), "File") > 0
    THEN File___init__(H, self, name, content)
    ELSE EntryCommon___init__(H, self, name, Omitted)

\* Directory.__init__(name, entries=(), **kwargs), lines 154-156.
\* Line 156, unless line 155 raised.
Directory___init___entries(H, self, es) ==
    IF H.exc # None THEN H ELSE entries_set(H, self, es)

Directory___init__(H, self, name, es) ==
    Directory___init___entries(ResourcesBearer___init__(H, self, name, None),
                               self, Default(es, <<>>))

\* Executable.__init__(name, content=None, windowed=False, **kwargs), lines 195-197.
Executable___init__(H, self, name, content) ==
    ResourcesBearer___init__(H, self, name, Default(content, None))

\* The columns of a new instance.  entry_type is set from the class's
\* polymorphic identity when the instance is constructed.
Columns(cls, name, content, resource_enc) ==
    [cls          |-> cls,
     name         |-> name,
     entry_type   |-> polymorphic_identity(cls),
     content      |-> IF cls = "Directory" THEN None ELSE Default(content, None),
     windowed     |-> IF cls = "Executable" THEN "False" ELSE None,
     resource_enc |-> IF cls = "File" THEN None ELSE Default(resource_enc, "json")]

\* FileSystem.__init__(device, backend), lines 49-51.
FileSystem___init__(device, backend) ==
    [cls |-> "FileSystem", device |-> device, backend |-> backend]

IsEntry(x) == x \in DOMAIN objects /\ objects[x].cls \in Classes

Entries == {x \in DOMAIN objects : objects[x].cls \in Classes}

IsBearer(x) == IsEntry(x) /\ MroIndex(__mro__(objects[x].cls), "ResourcesBearer") > 0

IsDirectory(x) == IsEntry(x) /\ objects[x].cls = "Directory"

\* Faulty variant: a lookup that ignores resource_enc.
\* ResourcesBearer._lookup_encoder, lines 127-131: KeyError for any other key.
Encoders == {"json", "pickle"}

\* Faulty variant: a lookup that ignores resource_enc.
_lookup_encoder_always_json(resource_enc) == "json"

_lookup_encoder(resource_enc) ==
    IF resource_enc \in Encoders THEN resource_enc ELSE "KeyError"

\* encoder.dumps(value) of line 125.
dumps(encoder, value) ==
    CASE encoder = "json"   -> json_dumps(value)
      [] encoder = "pickle" -> pickle_dumps(value)

\* Faulty variant: the Resource is appended before the encoder is looked up.
add_resource_appending_first(H, self, name, value) ==
    IF _lookup_encoder(objects[self].resource_enc) = "KeyError"
    THEN Raise([H EXCEPT !._resources[self] = Append(@, Resource___init__(name, None))],
               "KeyError")
    ELSE [H EXCEPT !._resources[self] =
            Append(@, Resource___init__(name,
                        dumps(_lookup_encoder(objects[self].resource_enc), value)))]

\* ResourcesBearer.add_resource, lines 123-125.
\* Line 125, with the encoder line 124 found.
add_resource_append(encoder, H, self, name, value) ==
    IF encoder = "KeyError" THEN Raise(H, "KeyError")
    ELSE [H EXCEPT !._resources[self] =
            Append(@, Resource___init__(name, dumps(encoder, value)))]

add_resource(H, self, name, value) ==
    add_resource_append(_lookup_encoder(objects[self].resource_enc), H, self, name, value)

-----------------------------------------------------------------------------
(* The session and the database.                                           *)

RECURSIVE Reach(_, _)
\* The entries reachable from the set S through Directory.entries.
Reach(H, S) ==
    LET T == S \cup UNION {{H.directory_entries[d][i].entry :
                                i \in DOMAIN H.directory_entries[d]} : d \in S}
    IN  IF T = S THEN S ELSE Reach(H, T)

\* Faulty variant: relationships declared with cascade=None.
session_add_no_cascade(H, x) ==
    IF objects[x].cls = "FileSystem"
    THEN [session_new EXCEPT !.filesystems = @ \cup {x}]
    ELSE [session_new EXCEPT !.entries = @ \cup {x}]

\* session.add(x): x becomes pending, and so does everything the save-update
\* cascade of the relationships reaches (directory_entries, entry, _resources).
session_add(H, x) ==
    IF objects[x].cls = "FileSystem"
    THEN [session_new EXCEPT !.filesystems = @ \cup {x}]
    ELSE [session_new EXCEPT !.entries = Reach(H, @ \cup {x})]

\* The rows a flush inserts for the pending entries E.
EntryRows(H, E) ==
    {[id         |-> e,
      fsid       |-> H._filesystem[e],
      entry_type |-> objects[e].entry_type,
      name       |-> objects[e].name] : e \in E}

ResourceRows(H, E) ==
    UNION {{[id    |-> e,
             name  |-> H._resources[e][i].name,
             fsid  |-> H._resources[e][i].filesystem,
             value |-> H._resources[e][i].value] : i \in DOMAIN H._resources[e]} :
           e \in E}

DirectoryEntryRows(H, E) ==
    UNION {{[dir_id   |-> H.directory_entries[d][i].directory,
             entry_id |-> H.directory_entries[d][i].entry] :
                i \in DOMAIN H.directory_entries[d]} : d \in E}

\* nullable=False (lines 58 and 87) and the primary keys (lines 85-86, 169-170).
FlushViolation(H, E) ==
    \/ \E e \in E : H._filesystem[e] = None
    \/ \E e \in E : \E i \in DOMAIN H._resources[e] :
            H._resources[e][i].filesystem = None
    \/ \E e \in E : \E i, j \in DOMAIN H._resources[e] :
            i # j /\ H._resources[e][i].name = H._resources[e][j].name
    \/ \E d \in E : \E i, j \in DOMAIN H.directory_entries[d] :
            i # j /\ H.directory_entries[d][i].entry = H.directory_entries[d][j].entry

\* session.commit(): flush what is pending, in one transaction.
session_commit(H) ==
    LET E == session_new.entries
    IN  [db EXCEPT
            !.filesystem      = @ \cup session_new.filesystems,
            !.entry           = @ \cup EntryRows(H, E),
            !.file            = @ \cup {e \in E : "file" \in TablesOf(objects[e].cls)},
            !.directory       = @ \cup {e \in E : "directory" \in TablesOf(objects[e].cls)},
            !.executable      = @ \cup {e \in E : "executable" \in TablesOf(objects[e].cls)},
            !.resources       = @ \cup ResourceRows(H, E),
            !.directory_entry = @ \cup DirectoryEntryRows(H, E)]

\* session.query(entity).filter_by(filesystem=fs).all(): the synonym compares
\* entry.fsid; a subclass entity joins its own tables to entry.
query_filter_by_filesystem(entity, fs) ==
    LET tables == IF entity = "EntryCommon" THEN {"entry"} ELSE TablesOf(entity)
    IN  {r.id : r \in {q \in db.entry :
                        /\ q.fsid = fs
                        /\ \A t \in tables \ {"entry"} : q.id \in db[t]}}

-----------------------------------------------------------------------------
(* The operations, one action each.  Every action records the call in      *)
(* `last`; an exception leaves in the heap what the code had already done. *)

Called(op, self, args, exc) == [op |-> op, self |-> self, args |-> args, exc |-> exc]

SetHeap(H) ==
    /\ _filesystem' = H._filesystem
    /\ _resources' = H._resources
    /\ directory_entries' = H.directory_entries

\* A call returns or raises with the heap H.
Outcome(H, op, self, args) ==
    /\ SetHeap(H)
    /\ last' = Called(op, self, args, H.exc)

\* filesystem = FileSystem(device, backend), line 208.
NewFileSystem(device, backend) ==
    /\ device \notin DOMAIN objects
    /\ objects' = (device :> FileSystem___init__(device, backend)) @@ objects
    /\ filesystem' = device
    /\ last' = Called("FileSystem", device, <<device, backend>>, None)
    /\ UNCHANGED <<_filesystem, _resources, directory_entries, session_new, db,
                   txlog, printed>>

\* session.add(x), lines 209, 218, 224.
SessionAdd(x) ==
    /\ x \in DOMAIN objects
    /\ session_new' = session_add(Heap, x)
    /\ last' = Called("session.add", x, <<>>, None)
    /\ UNCHANGED <<filesystem, objects, _filesystem, _resources, directory_entries,
                   db, txlog, printed>>

\* session.commit(), lines 210, 225.
Committed(bad) ==
    /\ txlog' = Append(txlog, "commit")
    /\ db' = IF bad THEN db ELSE session_commit(Heap)
    /\ session_new' = IF bad THEN session_new
                      ELSE [filesystems |-> {}, entries |-> {}]
    /\ last' = Called("session.commit", None, <<>>,
                      IF bad THEN "IntegrityError" ELSE None)
    /\ UNCHANGED <<filesystem, objects, _filesystem, _resources,
                   directory_entries, printed>>

SessionCommit == Committed(FlushViolation(Heap, session_new.entries))

\* self = File(...), Directory(...) or Executable(...): lines 212-222.
\* cls.__init__ on the fresh instance self of the heap H.
Construct(cls, H, self, name, content) ==
    CASE cls = "File"       -> File___init__(H, self, name, content)
      [] cls = "Directory"  -> Directory___init__(H, self, name, Omitted)
      [] cls = "Executable" -> Executable___init__(H, self, name, content)

\* The instance is bound to its variable unless __init__ raised.
Constructed(H, cls, self, name, content, resource_enc) ==
    /\ IF H.exc = None
       THEN /\ objects' = (self :> Columns(cls, name, content, resource_enc)) @@ objects
            /\ SetHeap(H)
       ELSE UNCHANGED <<objects, _filesystem, _resources, directory_entries>>
    /\ last' = Called(cls, self, <<name, resource_enc>>, H.exc)

New(cls, self, name, content, resource_enc) ==
    /\ self \notin DOMAIN objects
    /\ Constructed(Construct(cls, Allocate(Heap, self, cls), self, name, content),
                   cls, self, name, content, resource_enc)
    /\ UNCHANGED <<filesystem, session_new, db, txlog, printed>>

\* self.add_resource(name, value), lines 214, 221.
AddResource(self, name, value) ==
    /\ IsBearer(self)
    /\ Outcome(add_resource(Heap, self, name, value), "add_resource", self, <<name, value>>)
    /\ UNCHANGED <<filesystem, objects, session_new, db, txlog, printed>>

\* self.entries = L, lines 215, 216, 222.
SetEntries(self, L) ==
    /\ IsDirectory(self)
    /\ \A i \in DOMAIN L : IsEntry(L[i])
    /\ Outcome(entries_set(Heap, self, L), "entries", self, L)
    /\ UNCHANGED <<filesystem, objects, session_new, db, txlog, printed>>

\* self.filesystem = value, lines 217, 223.
SetFilesystem(self, value) ==
    /\ IsEntry(self)
    /\ Outcome(filesystem_setattr(Heap, self, value, {}), "filesystem", self, value)
    /\ objects' = IF value = None \/ value \in DOMAIN objects THEN objects
                  ELSE (value :> FileSystem___init__(value, "ext4")) @@ objects
    /\ UNCHANGED <<filesystem, session_new, db, txlog, printed>>

\* print(session.query(entity).filter_by(filesystem=filesystem).all()), lines 228, 231.
Query(entity) ==
    /\ printed' = Append(printed, query_filter_by_filesystem(entity, filesystem))
    /\ last' = Called("query", None, entity, None)
    /\ UNCHANGED <<filesystem, objects, _filesystem, _resources, directory_entries,
                   session_new, db, txlog>>

\* Carry out the call c.
Call(c) ==
    \/ c.op = "FileSystem" /\ NewFileSystem(c.device, c.backend)
    \/ c.op = "session.add" /\ SessionAdd(c.self)
    \/ c.op = "session.commit" /\ SessionCommit
    \/ c.op = "new" /\ New(c.cls, c.self, c.name, c.content, c.resource_enc)
    \/ c.op = "add_resource" /\ AddResource(c.self, c.name, c.value)
    \/ c.op = "entries" /\ SetEntries(c.self, c.value)
    \/ c.op = "filesystem" /\ SetFilesystem(c.self, c.value)
    \/ c.op = "query" /\ Query(c.entity)

-----------------------------------------------------------------------------
(* The scenario of lines 208-231, one call per statement.  A statement     *)
(* that constructs an entry inside a list display is two calls.            *)

FilmReel ==
    PyDict(<<<<"width", PyInt(32)>>, <<"height", PyInt(32)>>,
             <<"data", PyStr("film reel")>>>>)

BinaryIcon ==
    PyDict(<<<<"width", PyInt(32)>>, <<"height", PyInt(32)>>,
             <<"data", PyStr("binary icon")>>>>)

NewCall(line, cls, self, name, content, resource_enc) ==
    [line |-> line, op |-> "new", cls |-> cls, self |-> self, name |-> name,
     content |-> content, resource_enc |-> resource_enc]

Script ==
    << [line |-> 208, op |-> "FileSystem", device |-> "/dev/sda", backend |-> "btrfs"],
       [line |-> 209, op |-> "session.add", self |-> filesystem],
       [line |-> 210, op |-> "session.commit"],
       NewCall(212, "Directory", "documents", "Documents", Omitted, Omitted),
       NewCall(213, "Directory", "videos", "Videos", Omitted, Omitted),
       [line |-> 214, op |-> "add_resource", self |-> "videos", name |-> "Icon",
        value |-> FilmReel],
       NewCall(215, "Directory", "pictures", "Pictures", Omitted, Omitted),
       [line |-> 215, op |-> "entries", self |-> "documents",
        value |-> <<"videos", "pictures">>],
       NewCall(216, "File", "dancing_mp4", "dancing.mp4", "Cha Cha, Slow Fox and more",
               Omitted),
       [line |-> 216, op |-> "entries", self |-> "videos", value |-> <<"dancing_mp4">>],
       [line |-> 217, op |-> "filesystem", self |-> "documents", value |-> filesystem],
       [line |-> 218, op |-> "session.add", self |-> "documents"],
       NewCall(219, "Directory", "programs", "Programs", Omitted, Omitted),
       NewCall(220, "Executable", "cmd_exe", "cmd.exe", Omitted, "pickle"),
       [line |-> 221, op |-> "add_resource", self |-> "cmd_exe", name |-> "Icon",
        value |-> BinaryIcon],
       [line |-> 222, op |-> "entries", self |-> "programs", value |-> <<"cmd_exe">>],
       [line |-> 223, op |-> "filesystem", self |-> "programs", value |-> filesystem],
       [line |-> 224, op |-> "session.add", self |-> "programs"],
       [line |-> 225, op |-> "session.commit"],
       [line |-> 228, op |-> "query", entity |-> "EntryCommon"],
       [line |-> 231, op |-> "query", entity |-> "Directory"] >>

\* The scenario has run to its end (the module is imported).
Done == pc > Len(Script)

\* One statement of the scenario.  An exception is not caught: it ends the run.
ScriptStep ==
    /\ ~Done
    /\ raised = None
    /\ Call(Script[pc])
    /\ pc' = pc + 1
    /\ raised' = last'.exc
    /\ UNCHANGED nclient

-----------------------------------------------------------------------------
(* A client of the module: once the scenario has run, it constructs        *)
(* entries of its own and calls their methods in any order.  It leaves the *)
(* scenario's entries alone (they are persistent, and expired by the       *)
(* commit), and it catches the exceptions its calls raise.                 *)

\* The variables the client binds its entries to, in order of construction.
ClientPool == <<"a", "b", "c", "d", "e", "f">>

ClientEntries == {x \in Entries : \E i \in DOMAIN ClientPool : ClientPool[i] = x}

\* resource_enc as a client passes it: left out, a known key, an unknown key.
ClientEncodings == {Omitted, "pickle", "yaml"}

ClientResourceNames == {"Icon"}

ClientResourceValues == {PyInt(32), PyDict(<<<<"width", PyInt(32)>>>>)}

\* No FileSystem, the module's FileSystem, a FileSystem of the client's own.
ClientFileSystems == {None, filesystem, "/dev/sdb"}

RECURSIVE Lists(_)
\* The lists without repetition over the set S.
Lists(S) == {<<>>} \cup UNION {{<<x>> \o l : l \in Lists(S \ {x})} : x \in S}

ClientMayCall ==
    /\ Done
    /\ raised = None
    /\ nclient < MaxOps

ClientCalled ==
    /\ nclient' = nclient + 1
    /\ UNCHANGED <<pc, raised>>

ClientNew ==
    /\ ClientMayCall
    /\ Cardinality(ClientEntries) < Len(ClientPool)
    /\ LET self == ClientPool[Cardinality(ClientEntries) + 1]
       IN  \/ New("File", self, self, "data", Omitted)
           \/ \E enc \in ClientEncodings : New("Directory", self, self, Omitted, enc)
           \/ \E enc \in ClientEncodings : New("Executable", self, self, Omitted, enc)
    /\ ClientCalled

ClientAddResource ==
    /\ ClientMayCall
    /\ \E self \in ClientEntries, name \in ClientResourceNames,
          value \in ClientResourceValues : AddResource(self, name, value)
    /\ ClientCalled

ClientSetEntries ==
    /\ ClientMayCall
    /\ \E self \in ClientEntries, L \in Lists(ClientEntries) : SetEntries(self, L)
    /\ ClientCalled

ClientSetFilesystem ==
    /\ ClientMayCall
    /\ \E self \in ClientEntries, value \in ClientFileSystems : SetFilesystem(self, value)
    /\ ClientCalled

-----------------------------------------------------------------------------

Init ==
    /\ filesystem = Unbound
    /\ objects = [x \in {} |-> None]
    /\ _filesystem = [x \in {} |-> None]
    /\ _resources = [x \in {} |-> <<>>]
    /\ directory_entries = [x \in {} |-> <<>>]
    /\ session_new = [filesystems |-> {}, entries |-> {}]
    /\ db = [filesystem |-> {}, entry |-> {}, file |-> {}, directory |-> {},
             executable |-> {}, resources |-> {}, directory_entry |-> {}]
    /\ txlog = <<>>
    /\ printed = <<>>
    /\ pc = 1
    /\ raised = None
    /\ nclient = 0
    /\ last = Called("import", None, <<>>, None)

Next ==
    \/ ScriptStep
    \/ ClientNew
    \/ ClientAddResource
    \/ ClientSetEntries
    \/ ClientSetFilesystem

Spec == Init /\ [][Next]_vars

-----------------------------------------------------------------------------
(* Properties.                                                             *)

\* The entries the scenario builds, and the directories among them.
ScenarioEntries == {"documents", "videos", "pictures", "dancing_mp4", "programs", "cmd_exe"}

ScenarioDirectories == {"documents", "videos", "pictures", "programs"}

\* The call that was just made returned normally.
Returned(op) == last.op = op /\ last.exc = None

\* C1: a directory's entries are the .entry fields of its directory_entries,
\* in order; every DirectoryEntry of d points back at d; and right after
\* `d.entries = L` there is one DirectoryEntry per element of L and reading
\* d.entries yields L.
C1_EntriesAreTheAssignedList ==
    /\ \A d \in Entries :
          /\ Len(entries_get(Heap, d)) = Len(directory_entries[d])
          /\ \A i \in DOMAIN directory_entries[d] :
                /\ entries_get(Heap, d)[i] = directory_entries[d][i].entry
                /\ directory_entries[d][i].directory = d
    /\ Returned("entries") =>
          /\ Len(directory_entries[last.self]) = Len(last.args)
          /\ \A i \in DOMAIN last.args :
                directory_entries[last.self][i] =
                    [entry |-> last.args[i], directory |-> last.self]
          /\ entries_get(Heap, last.self) = last.args

\* C1 witness: a list of two different entries has been assigned and read back.
C1_Witness ==
    /\ Returned("entries")
    /\ Len(last.args) = 2
    /\ last.args[1] # last.args[2]
    /\ entries_get(Heap, last.self) = last.args

\* The encoding a bearer's resource_enc selects, spelled out.
ExpectedEncoding(enc, value) ==
    IF enc = "json" THEN json_dumps(value)
    ELSE IF enc = "pickle" THEN pickle_dumps(value)
    ELSE "<no encoder>"

C2_Step ==
    /\ (last'.op = "add_resource" /\ last'.exc = None) =>
          LET x == last'.self
          IN  /\ Len(_resources'[x]) = Len(_resources[x]) + 1
              /\ \A i \in DOMAIN _resources[x] : _resources'[x][i] = _resources[x][i]
              /\ _resources'[x][Len(_resources'[x])].name = last'.args[1]
              /\ _resources'[x][Len(_resources'[x])].value =
                    ExpectedEncoding(objects[x].resource_enc, last'.args[2])
              /\ \A y \in DOMAIN _resources \ {x} : _resources'[y] = _resources[y]
    /\ (last'.op \in {"Directory", "Executable"} /\ last'.exc = None) =>
          objects'[last'.self].resource_enc =
              IF last'.args[2] = Omitted THEN "json" ELSE last'.args[2]

\* C2: add_resource appends exactly one Resource, with the given name and the
\* value serialized by the encoder resource_enc selects ("json" when the
\* bearer was constructed without resource_enc), and leaves every Resource
\* already attached, to this bearer or another, unchanged and in place.
C2_AddResourceAppendsOneEncoded == [][C2_Step]_vars

\* C2 witness: add_resource returned on a bearer that already had a Resource.
C2_Witness ==
    /\ Returned("add_resource")
    /\ Len(_resources[last.self]) >= 2

\* C3: after the second commit the query on EntryCommon returns the six
\* entries of the scenario, the query on Directory the four directories and
\* nothing else, and every entry carries the one identity of its class.
C3_QueriesReturnTheScenario ==
    /\ Len(printed) >= 1 => printed[1] = ScenarioEntries
    /\ Len(printed) >= 2 =>
          /\ printed[2] = ScenarioDirectories
          /\ \A x \in printed[2] : objects[x].cls = "Directory"
    /\ Done => raised = None /\ Len(printed) = 2
    /\ \A e \in Entries :
          /\ objects[e].entry_type \in {"file", "directory", "executable"}
          /\ objects[e].cls = "File" => objects[e].entry_type = "file"
          /\ objects[e].cls = "Directory" => objects[e].entry_type = "directory"
          /\ objects[e].cls = "Executable" => objects[e].entry_type = "executable"
    /\ \A r \in db.entry : r.entry_type = objects[r.id].entry_type

\* C3 witness: both queries have run and returned different sets.
C3_Witness ==
    /\ Len(printed) = 2
    /\ printed[1] = ScenarioEntries
    /\ printed[2] # printed[1]

\* The scenario is about to make its second commit (line 225).
AtSecondCommit ==
    /\ ~Done
    /\ Script[pc].op = "session.commit"
    /\ Len(txlog) = 1

\* C4: at the second commit the six entries and the two Icon resources are
\* pending, each with the FileSystem committed by the first commit as its
\* filesystem, and the commit raises no IntegrityError.
C4_NothingPendingLacksAFileSystem ==
    /\ AtSecondCommit =>
          LET E == session_new.entries
          IN  /\ E = ScenarioEntries
              /\ filesystem \in db.filesystem
              /\ \A e \in E : _filesystem[e] = filesystem
              /\ \A e \in E : \A i \in DOMAIN _resources[e] :
                    _resources[e][i].filesystem = filesystem
              /\ {e \in E : _resources[e] # <<>>} = {"videos", "cmd_exe"}
              /\ \A e \in {"videos", "cmd_exe"} :
                    Len(_resources[e]) = 1 /\ _resources[e][1].name = "Icon"
    /\ last.op = "session.commit" => last.exc = None /\ raised = None

\* C4 witness: the second commit has been made.
C4_Witness ==
    /\ last.op = "session.commit"
    /\ Len(txlog) = 2
    /\ Cardinality(db.resources) = 2

IsPrefix(s, t) == Len(s) <= Len(t) /\ \A i \in DOMAIN s : s[i] = t[i]

\* C5: the transaction boundaries are two commits and nothing else; the
\* first commits the FileSystem alone, before any entry exists; the second
\* commits all six entries and both resources together; the queries run
\* after it.
C5_TwoCommits ==
    /\ IsPrefix(txlog, <<"commit", "commit">>)
    /\ Done => txlog = <<"commit", "commit">>
    /\ Len(txlog) = 0 => Entries = {} /\ db.filesystem = {}
    /\ Entries # {} => db.filesystem = {filesystem}
    /\ Len(txlog) = 1 =>
          /\ db.entry = {} /\ db.resources = {} /\ db.directory_entry = {}
          /\ session_new.filesystems = {}
    /\ Len(txlog) = 2 =>
          /\ {r.id : r \in db.entry} = ScenarioEntries
          /\ Cardinality(db.resources) = 2
          /\ session_new.entries = {}
    /\ Len(printed) > 0 => Len(txlog) = 2

\* C5 witness: the second commit has put the six entries in the database
\* and no query has run yet.
C5_Witness ==
    /\ txlog = <<"commit", "commit">>
    /\ {r.id : r \in db.entry} = ScenarioEntries
    /\ printed = <<>>

\* C6 as claimed: after `d.filesystem = v` returns on a Directory d, d and
\* every entry reachable from d through entries have filesystem v.
C6_Claimed ==
    (Returned("filesystem") /\ IsDirectory(last.self)) =>
        \A e \in Reach(Heap, {last.self}) : filesystem_getattr(Heap, e) = last.args

\* C7 as claimed: after `x.filesystem = v` returns, x and every bearer
\* reached through the propagation have filesystem v, and so has every
\* Resource attached to them.
C7_Claimed ==
    Returned("filesystem") =>
        \A x \in {y \in Reach(Heap, {last.self}) : IsBearer(y)} :
            /\ filesystem_getattr(Heap, x) = last.args
            /\ \A i \in DOMAIN _resources[x] : _resources[x][i].filesystem = last.args

\* C8 as claimed: after `e.filesystem = v` reading e.filesystem returns v,
\* and an entry constructed without a filesystem argument reads None.
C8_Claimed ==
    /\ Returned("filesystem") => filesystem_getattr(Heap, last.self) = last.args
    /\ (last.op \in Classes /\ last.exc = None) =>
          filesystem_getattr(Heap, last.self) = None

\* C9 as claimed: in every state every Resource has the filesystem of its
\* bearer and every entry of a directory has the filesystem of the directory.
C9_Claimed ==
    \A x \in Entries :
        /\ \A i \in DOMAIN _resources[x] :
              _resources[x][i].filesystem = filesystem_getattr(Heap, x)
        /\ \A i \in DOMAIN directory_entries[x] :
              filesystem_getattr(Heap, entries_get(Heap, x)[i]) = filesystem_getattr(Heap, x)

\* C9 as amended: every entry of a directory has the filesystem of the
\* directory.  A Resource has the value of the last assignment made while
\* it was attached: right after `x.filesystem = v` returns, every Resource
\* of x and of the bearers reachable from x has v; a Resource add_resource
\* has just attached has None; so the Resources of a bearer are a run
\* carrying one value followed by a run carrying None.
C9_Amended ==
    /\ \A x \in Entries :
          /\ \A i \in DOMAIN directory_entries[x] :
                filesystem_getattr(Heap, entries_get(Heap, x)[i]) = filesystem_getattr(Heap, x)
          /\ \A i, j \in DOMAIN _resources[x] :
                (i < j /\ _resources[x][j].filesystem # None) =>
                    _resources[x][i].filesystem = _resources[x][j].filesystem
    /\ Returned("filesystem") =>
          \A x \in Reach(Heap, {last.self}) : \A i \in DOMAIN _resources[x] :
              _resources[x][i].filesystem = last.args
    /\ Returned("add_resource") =>
          _resources[last.self][Len(_resources[last.self])].filesystem = None

\* C9 witness: a bearer holds a Resource attached before its last assignment
\* and one attached after it, and its own filesystem is neither's.
C9_Witness ==
    \E x \in Entries :
        /\ Len(_resources[x]) = 2
        /\ _resources[x][1].filesystem \notin {None, filesystem_getattr(Heap, x)}
        /\ _resources[x][2].filesystem = None

C10_Step ==
    (last'.op = "add_resource" /\ objects[last'.self].resource_enc \notin {"json", "pickle"}) =>
        /\ last'.exc = "KeyError"
        /\ _resources' = _resources
        /\ _filesystem' = _filesystem
        /\ directory_entries' = directory_entries
        /\ objects' = objects

\* C10: add_resource on a bearer whose resource_enc is neither "json" nor
\* "pickle" raises KeyError to the caller and changes nothing: no Resource is
\* appended, and resources and filesystems are as before the call.
C10_UnknownEncoderRaisesFirst == [][C10_Step]_vars

\* C10 witness: add_resource has raised KeyError on a bearer with another key.
C10_Witness ==
    /\ last.op = "add_resource"
    /\ last.exc = "KeyError"
    /\ objects[last.self].resource_enc = "yaml"

=============================================================================
